---------------------------- MODULE Spec2Model ----------------------------
(***************************************************************************)
(* Composition state machine of the InputTools transliteration widget      *)
(* (src/src/components/InputTools/InputTools.tsx).                         *)
(*                                                                         *)
(* A text is a sequence of one-character strings, so that length, slicing  *)
(* and concatenation are computed as JavaScript computes them.  Each React *)
(* event handler runs to completion and React re-renders before the next   *)
(* event, so a handler together with the effects its state updates trigger *)
(* is one action.  Indices into the suggestion list are 0-based as in the  *)
(* code; the TLA+ sequence holding the list is 1-based.                    *)
(***************************************************************************)
EXTENDS Integers, Sequences, FiniteSets, TLC

VARIABLES
    value,              \* useState('')        line 61
    typedWord,          \* useState('')        line 62
    suggestion,         \* useState([])        line 65
    showSuggestion,     \* useState('none')    line 66
    selectedSuggestion, \* useState(0)         line 67
    cursorPosition,     \* useState(1)         line 68
    metaKey,            \* useRef(false)       line 70
    metaTimers,         \* pending setTimeout(..., 100) callbacks, line 182
    debounceTimer,      \* the lodash debounce instance: pending flag and last arguments
    inflight,           \* number of fetch requests whose response has not arrived
    mounted,            \* the component is mounted
    modifierHeld,       \* the physical platform modifier key is down (event.metaKey)
    burst,              \* observer: accepted alphanumeric key-ups in the current burst
    burstSent,          \* observer: fetch requests sent since the current burst began
    graceTimer,         \* observer: the place, among the pending setTimeout callbacks,
                        \* of the one started by the last release of the modifier
                        \* (0: none pending)
    callbackArg,        \* observer: the argument of the last onChangeCallback call
    latestRequest,      \* observer: whether the request sent last is in flight, and
                        \* the list its response has set
    lastOp              \* observer: the handler that ran last, the branch it took, its
                        \* key, the list index it committed or the response it
                        \* received, the word a fetch carried or the content and
                        \* selection a change event reported, and the number of
                        \* onChangeCallback calls its render caused

vars == <<value, typedWord, suggestion, showSuggestion, selectedSuggestion,
          cursorPosition, metaKey, metaTimers, debounceTimer,
          inflight, mounted, modifierHeld, burst, burstSent, graceTimer,
          callbackArg, latestRequest, lastOp>>

-----------------------------------------------------------------------------
(* Bounds of the model *)

MaxValueLen == 3
MaxWordLen == 2
MaxInflight == 2
MaxMetaTimers == 1

(* Program constants *)

MAX_SUGGESTIONS == 5
DISPLAY_NONE == "none"
DISPLAY_BLOCK == "block"

-----------------------------------------------------------------------------
(* Texts *)

Min(a, b) == IF a < b THEN a ELSE b
Max(a, b) == IF a > b THEN a ELSE b

\* String.prototype.substring(from, to): both ends clamped to [0, length]
Substring(s, from, to) ==
    LET f == Min(Max(from, 0), Len(s))
        t == Min(Max(to, 0), Len(s))
    IN  SubSeq(s, Min(f, t) + 1, Max(f, t))

\* s.slice(0, -1)
SliceDropLast(s) == SubSeq(s, 1, Len(s) - 1)

\* s.slice(-1)
SliceLast(s) == IF Len(s) = 0 THEN <<>> ELSE <<s[Len(s)]>>

\* the characters of the model that match [A-Za-z0-9]
AlphaNumericChars == {"a"}

\* /^[A-Za-z0-9]$/.test(val)
isAplhaNumeric(val) == Len(val) = 1 /\ val[1] \in AlphaNumericChars

-----------------------------------------------------------------------------
(* JSON values returned by res.json(): arrays, strings and null *)

Arr(items) == [kind |-> "array", items |-> items, text |-> <<>>]
Str(text) == [kind |-> "string", items |-> <<>>, text |-> text]
Null == [kind |-> "null", items |-> <<>>, text |-> <<>>]

SUCCESS == Str(<<"SUCCESS">>)
FAILURE == Str(<<"FAILURE">>)

\* Array.isArray(v)
IsArray(v) == v.kind = "array"

\* v.length of an array
Length(v) == Len(v.items)

\* whether [...v] evaluates: arrays and strings are iterable, null throws TypeError
IsIterable(v) == v.kind \in {"array", "string"}

\* [...v]: the elements of an array, the characters of a string
Spread(v) ==
    IF v.kind = "array" THEN v.items
    ELSE [i \in 1..Len(v.text) |-> Str(<<v.text[i]>>)]

\* The candidate words of the model
WordA == <<"a">>
CandX == <<"x">>
CandXX == <<"x", "x">>

\* [original, alternatives] entries
Entry(original, alternatives) == Arr(<<Str(original), alternatives>>)
Alts(words) == Arr([i \in 1..Len(words) |-> Str(words[i])])

\* as many alternatives as the request asks for with num=${MAX_SUGGESTIONS}, line 80
FullAlternatives == Alts([i \in 1..MAX_SUGGESTIONS |-> CandX])

\* The lookup outcomes the service is modelled to deliver: complete ones first
\* (two alternatives, none, an empty alternative), then no array, two entries, the
\* incomplete and the unexpected shapes, and as many alternatives as asked for
Responses ==
    << Arr(<<SUCCESS, Arr(<<Entry(WordA, Alts(<<CandX, CandXX>>))>>)>>),
       Arr(<<SUCCESS, Arr(<<Entry(WordA, Alts(<<>>))>>)>>),
       Arr(<<SUCCESS, Arr(<<Entry(WordA, Alts(<<<<>>>>))>>)>>),
       Null,
       Arr(<<SUCCESS, Arr(<<Entry(WordA, Alts(<<CandX>>)), Entry(CandX, Alts(<<CandXX>>))>>)>>),
       Arr(<<>>),
       Arr(<<FAILURE>>),
       Arr(<<SUCCESS>>),
       Arr(<<FAILURE, Arr(<<Entry(WordA, Alts(<<CandX>>))>>)>>),
       Arr(<<SUCCESS, Null>>),
       Arr(<<SUCCESS, Arr(<<>>)>>),
       Arr(<<SUCCESS, Arr(<<Str(WordA)>>)>>),
       Arr(<<SUCCESS, Arr(<<Arr(<<Str(WordA)>>)>>)>>),
       Arr(<<SUCCESS, Arr(<<Entry(WordA, Null)>>)>>),
       Arr(<<SUCCESS, Arr(<<Entry(WordA, Str(CandXX))>>)>>),
       Arr(<<SUCCESS, Arr(<<Arr(<<Str(WordA), Alts(<<CandX>>), Null>>)>>)>>),
       Arr(<<SUCCESS, Arr(<<Entry(WordA, FullAlternatives)>>)>>) >>

\* as TopLevelComplete, without the comparison with 'SUCCESS'
TopLevelComplete_AnyMarker(data) ==
    /\ IsArray(data)
    /\ ~(Length(data) < 2)
    /\ IsArray(data.items[2])
    /\ ~(Length(data.items[2]) < 1)

\* lines 84-88: the response is complete at the top level
TopLevelComplete(data) ==
    /\ IsArray(data)
    /\ ~(Length(data) < 2)
    /\ data.items[1] = SUCCESS
    /\ IsArray(data.items[2])
    /\ ~(Length(data.items[2]) < 1)

\* lines 91-92: the first entry is an array of at least two elements
EntryComplete(dataRes) == IsArray(dataRes) /\ ~(Length(dataRes) < 2)

\* lines 84-95: whether debouncedSearch reaches setSuggestion for this response
Accepted(data) ==
    /\ TopLevelComplete(data)
    /\ EntryComplete(data.items[2].items[1])
    /\ IsIterable(data.items[2].items[1].items[2])

\* as Suggestions, with the original first
Suggestions_OriginalFirst(dataRes) ==
    LET list == <<dataRes.items[1]>> \o Spread(dataRes.items[2])
    IN  [i \in 1..Len(list) |-> list[i].text]

\* line 95: [...dataRes[1], dataRes[0]], as texts
Suggestions(dataRes) ==
    LET list == Append(Spread(dataRes.items[2]), dataRes.items[1])
    IN  [i \in 1..Len(list) |-> list[i].text]

-----------------------------------------------------------------------------
(* The component state the handlers read and write *)

State ==
    [ value |-> value, typedWord |-> typedWord, suggestion |-> suggestion,
      showSuggestion |-> showSuggestion, selectedSuggestion |-> selectedSuggestion,
      cursorPosition |-> cursorPosition, metaKey |-> metaKey, metaTimers |-> metaTimers ]

\* as clearSuggestion, without the reset of the selected index
clearSuggestion_KeepsSelection(s) ==
    [s EXCEPT !.typedWord = <<>>, !.suggestion = <<>>,
              !.showSuggestion = DISPLAY_NONE, !.metaKey = FALSE]

\* as clearSuggestion, without the release of the suppression flag
clearSuggestion_KeepsFlag(s) ==
    [s EXCEPT !.typedWord = <<>>, !.suggestion = <<>>, !.selectedSuggestion = 0,
              !.showSuggestion = DISPLAY_NONE]

\* lines 220-226
clearSuggestion(s) ==
    [s EXCEPT !.typedWord = <<>>, !.suggestion = <<>>, !.selectedSuggestion = 0,
              !.showSuggestion = DISPLAY_NONE, !.metaKey = FALSE]

\* line 209: suggestion[idx] is defined
HasCandidate(list, idx) == idx + 1 \in DOMAIN list

\* line 212: if(selectedValue), false for undefined and for the empty string
IsSelectable(list, idx) == HasCandidate(list, idx) /\ list[idx + 1] # <<>>

\* lines 210-213: `${leftValue}${selectedValue} ${rightValue}`
SpliceValue(val, cursor, selectedValue) ==
    Substring(val, 0, cursor) \o selectedValue \o <<" ">>
        \o Substring(val, cursor, Len(val))

\* as AdvanceCursor, without the inserted space
AdvanceCursor_NoSpace(prev, selectedValue) == prev + Len(selectedValue)

\* line 214: prev + selectedValue.length + 1
AdvanceCursor(prev, selectedValue) == prev + Len(selectedValue) + 1

\* lines 208-217
selectSuggestion(s, idx) ==
    IF IsSelectable(s.suggestion, idx)
    THEN clearSuggestion(
            [s EXCEPT !.value = SpliceValue(s.value, s.cursorPosition, s.suggestion[idx + 1]),
                      !.cursorPosition = AdvanceCursor(@, s.suggestion[idx + 1])])
    ELSE clearSuggestion(s)

\* line 148: prev < suggestion.length - 1 ? prev + 1 : prev
ArrowDownIndex(prev, length) == IF prev < length - 1 THEN prev + 1 ELSE prev

\* line 152: prev > 0 ? prev - 1 : prev
ArrowUpIndex(prev) == IF prev > 0 THEN prev - 1 ELSE prev

\* as Backspace, but clearing the composition when the last character is removed
Backspace_ClearsWhenEmptied(s) ==
    IF Len(s.typedWord) > 1
    THEN [s EXCEPT !.typedWord = SliceDropLast(@)]
    ELSE clearSuggestion(s)

\* lines 163-169
Backspace(s) ==
    IF s.typedWord # <<>>
    THEN [s EXCEPT !.typedWord = IF @ # <<>> THEN SliceDropLast(@) ELSE @]
    ELSE clearSuggestion(s)

\* as handleNonAlphaKeyPress, but Enter commits the first entry of the list
handleNonAlphaKeyPress_EnterFirst(s, key) ==
    CASE key = "ArrowDown" ->
            [s EXCEPT !.selectedSuggestion = ArrowDownIndex(@, Len(s.suggestion))]
      [] key = "ArrowUp" -> [s EXCEPT !.selectedSuggestion = ArrowUpIndex(@)]
      [] key = "Enter" -> selectSuggestion(s, 0)
      [] key = " " -> selectSuggestion(s, s.selectedSuggestion)
      [] key = "Backspace" -> Backspace(s)
      [] OTHER -> s

\* lines 145-173
handleNonAlphaKeyPress(s, key) ==
    CASE key = "ArrowDown" ->
            [s EXCEPT !.selectedSuggestion = ArrowDownIndex(@, Len(s.suggestion))]
      [] key = "ArrowUp" -> [s EXCEPT !.selectedSuggestion = ArrowUpIndex(@)]
      [] key = "Enter" -> selectSuggestion(s, s.selectedSuggestion)
      [] key = " " -> selectSuggestion(s, s.selectedSuggestion)
      [] key = "Backspace" -> Backspace(s)
      [] OTHER -> s

\* as IsModifierEvent, without event.metaKey
IsModifierEvent_KeyOnly(key, eventMetaKey) == key = "Meta"

\* line 180: event.metaKey || event.key === 'Meta'
IsModifierEvent(key, eventMetaKey) == eventMetaKey \/ key = "Meta"

\* lines 176-205: the branch of onKeyUp an event takes
KeyUpRoute(s, key, eventMetaKey) ==
    IF IsModifierEvent(key, eventMetaKey) THEN "modifier"
    ELSE IF s.metaKey THEN "suppressed"
    ELSE IF isAplhaNumeric(<<key>>) THEN "alphanumeric"
    ELSE IF s.showSuggestion = DISPLAY_NONE THEN "hidden"
    ELSE "control"

\* lines 176-205
onKeyUp(s, key, eventMetaKey) ==
    LET route == KeyUpRoute(s, key, eventMetaKey)
    IN  CASE route = "modifier" -> [s EXCEPT !.metaTimers = @ + 1]
          [] route = "alphanumeric" ->
                [s EXCEPT !.showSuggestion = DISPLAY_BLOCK, !.typedWord = Append(@, key)]
          [] route = "control" -> handleNonAlphaKeyPress(s, key)
          [] OTHER -> s

\* lines 137-142
onKeyDown(s, eventMetaKey) == IF eventMetaKey THEN [s EXCEPT !.metaKey = TRUE] ELSE s

\* as IgnoresChange, with the test dropped
IgnoresChange_Never(show) == FALSE

\* line 236: the native change is ignored while the list is showing
IgnoresChange(show) == show = DISPLAY_BLOCK

\* as onChange, but adopting the reported cursor after an alphanumeric character
onChange_AdoptsCursor(s, content, selectionStart, selectionEnd) ==
    IF IgnoresChange(s.showSuggestion) THEN s
    ELSE IF isAplhaNumeric(SliceLast(Substring(content, 0, selectionStart)))
    THEN [s EXCEPT !.cursorPosition = selectionEnd]
    ELSE [s EXCEPT !.cursorPosition = selectionEnd, !.value = content]

\* lines 231-249
onChange(s, content, selectionStart, selectionEnd) ==
    IF IgnoresChange(s.showSuggestion) THEN s
    ELSE IF isAplhaNumeric(SliceLast(Substring(content, 0, selectionStart)))
    THEN [s EXCEPT !.cursorPosition = selectionEnd - 1]
    ELSE [s EXCEPT !.cursorPosition = selectionEnd, !.value = content]

\* lines 84-96: the continuation of debouncedSearch after res.json()
applyResponse(s, data) ==
    IF Accepted(data)
    THEN [s EXCEPT !.suggestion = Suggestions(data.items[2].items[1])]
    ELSE s

-----------------------------------------------------------------------------
(* lodash debounce(func, DEBOUNCE_INTERVAL), trailing edge *)

DebounceIdle == [pending |-> FALSE, args |-> <<>>]

\* debouncedSearch(word): remember the arguments and restart the timer
DebounceCall(timer, word) == [pending |-> TRUE, args |-> word]

\* debouncedSearch.cancel()
DebounceCancel(timer) == DebounceIdle

\* as TypedWordEffect, but a call made while a timer is pending leaves that timer
\* and its arguments alone
TypedWordEffect_KeepsPending(old, new, timer) ==
    IF new = old THEN timer
    ELSE IF new # <<>>
    THEN IF timer.pending THEN timer ELSE DebounceCall(timer, new)
    ELSE DebounceCancel(timer)

\* as TypedWordEffect, but without the cleanup when typedWord becomes empty
TypedWordEffect_NoCancel(old, new, timer) ==
    IF new = old THEN timer
    ELSE IF new # <<>> THEN DebounceCall(DebounceCancel(timer), new)
    ELSE timer

\* lines 102-110: the cleanup of the previous effect, then the effect, run when
\* typedWord has changed
TypedWordEffect(old, new, timer) ==
    IF new = old THEN timer
    ELSE IF new # <<>> THEN DebounceCall(DebounceCancel(timer), new)
    ELSE DebounceCancel(timer)

\* as ValueEffect, but the callback receives the value of the previous render
ValueEffect_PreviousValue(old, new, arg) == IF new = old THEN arg ELSE old

\* lines 113-115: the effect runs when value has changed and calls
\* onChangeCallback(value); the result is the argument of the last call
ValueEffect(old, new, arg) == IF new = old THEN arg ELSE new

\* lines 113-115: the number of calls the effect makes after a render
ValueEffectCalls(old, new) == IF new = old THEN 0 ELSE 1

-----------------------------------------------------------------------------
(* Inputs *)

\* event.key of the keyboard events of the model
Keys == {"a", "ArrowDown", "ArrowUp", "Enter", " ", "Backspace", "Meta", "Tab"}

\* the characters a native edit of the model may leave in the text field
NativeChars == {"a", " "}

\* event.target.value of a native change event
NativeContents == {<<>>} \cup {<<c>> : c \in NativeChars}

-----------------------------------------------------------------------------
(* Initial state: lines 61-70 *)

\* no request is in flight and none has set the list
NoRequest == [inflight |-> FALSE, list |-> <<>>]

NoOp ==
    [op |-> "none", route |-> "", key |-> "", idx |-> 0, word |-> <<>>,
     start |-> 0, end |-> 0, calls |-> 0]

Init ==
    /\ value = <<>>
    /\ typedWord = <<>>
    /\ suggestion = <<>>
    /\ showSuggestion = DISPLAY_NONE
    /\ selectedSuggestion = 0
    /\ cursorPosition = 1
    /\ metaKey = FALSE
    /\ metaTimers = 0
    /\ debounceTimer = DebounceIdle
    /\ inflight = 0
    /\ mounted = TRUE
    /\ modifierHeld = FALSE
    /\ burst = 0
    /\ burstSent = 0
    /\ graceTimer = 0
    /\ callbackArg = <<>>
    /\ latestRequest = NoRequest
    /\ lastOp = NoOp

\* the part of the reachable states the model explores
InBounds(t) ==
    /\ Len(t.value) <= MaxValueLen
    /\ t.cursorPosition <= MaxValueLen + 1
    /\ Len(t.typedWord) <= MaxWordLen
    /\ t.metaTimers <= MaxMetaTimers

\* The handler's state updates are committed and the effects of lines 102-110 and
\* 113-115 run; at mount the latter has called onChangeCallback('')
Commit(t) ==
    /\ InBounds(t)
    /\ value' = t.value
    /\ typedWord' = t.typedWord
    /\ suggestion' = t.suggestion
    /\ showSuggestion' = t.showSuggestion
    /\ selectedSuggestion' = t.selectedSuggestion
    /\ cursorPosition' = t.cursorPosition
    /\ metaKey' = t.metaKey
    /\ metaTimers' = t.metaTimers
    /\ debounceTimer' = TypedWordEffect(typedWord, t.typedWord, debounceTimer)
    /\ callbackArg' = ValueEffect(value, t.value, callbackArg)

\* Observer of bursts: an accepted alphanumeric key-up that arrives while the timer
\* armed by the previous one is pending continues the burst, otherwise it starts
\* one; any other change of typedWord ends the burst.
ObserveBurst(route, t) ==
    IF route = "alphanumeric"
    THEN IF burst > 0 /\ debounceTimer.pending
         THEN burst' = burst + 1 /\ burstSent' = burstSent
         ELSE burst' = 1 /\ burstSent' = 0
    ELSE IF t.typedWord # typedWord
         THEN burst' = 0 /\ burstSent' = 0
         ELSE UNCHANGED <<burst, burstSent>>

-----------------------------------------------------------------------------
(* Actions *)

\* onKeyDown, lines 137-142
KeyDown(key) ==
    /\ mounted
    /\ modifierHeld' = (modifierHeld \/ key = "Meta")
    /\ Commit(onKeyDown(State, modifierHeld'))
    /\ lastOp' = [NoOp EXCEPT !.op = "KeyDown"]
    /\ UNCHANGED <<inflight, mounted, burst, burstSent, graceTimer, latestRequest>>

\* onKeyUp, lines 176-205; the key-up of the modifier itself reports metaKey false
KeyUp(key) ==
    LET eventMetaKey == modifierHeld /\ key # "Meta"
        route == KeyUpRoute(State, key, eventMetaKey)
        t == onKeyUp(State, key, eventMetaKey)
    IN  /\ mounted
        /\ modifierHeld' = (modifierHeld /\ key # "Meta")
        /\ Commit(t)
        /\ ObserveBurst(route, t)
        /\ lastOp' = [NoOp EXCEPT !.op = "KeyUp", !.route = route, !.key = key,
                                  !.idx = IF route = "control" /\ key \in {"Enter", " "}
                                          THEN selectedSuggestion ELSE 0,
                                  !.calls = ValueEffectCalls(value, t.value)]
        /\ graceTimer' = IF modifierHeld /\ key = "Meta" THEN t.metaTimers ELSE graceTimer
        /\ UNCHANGED <<inflight, mounted, latestRequest>>

\* the callback of setTimeout, line 182
MetaTimerFire ==
    /\ metaTimers > 0
    /\ metaTimers' = metaTimers - 1
    /\ metaKey' = FALSE
    /\ graceTimer' = Max(graceTimer - 1, 0)
    /\ lastOp' = [NoOp EXCEPT !.op = "MetaTimerFire"]
    /\ UNCHANGED <<value, typedWord, suggestion, showSuggestion, selectedSuggestion,
                   cursorPosition, debounceTimer, inflight, mounted,
                   modifierHeld, burst, burstSent, callbackArg, latestRequest>>

\* onChange, lines 231-249
Change(content, selectionStart, selectionEnd) ==
    LET t == onChange(State, content, selectionStart, selectionEnd)
    IN  /\ mounted
        /\ Commit(t)
        /\ ObserveBurst("change", t)
        /\ lastOp' = [NoOp EXCEPT !.op = "Change", !.word = content,
                                  !.start = selectionStart, !.end = selectionEnd,
                                  !.calls = ValueEffectCalls(value, t.value)]
        /\ UNCHANGED <<inflight, mounted, modifierHeld, graceTimer, latestRequest>>

\* onClick of a rendered list entry, lines 270-275
Click(idx) ==
    LET t == selectSuggestion(State, idx)
    IN  /\ mounted
        /\ showSuggestion = DISPLAY_BLOCK
        /\ HasCandidate(suggestion, idx)
        /\ Commit(t)
        /\ ObserveBurst("click", t)
        /\ lastOp' = [NoOp EXCEPT !.op = "Click", !.idx = idx,
                                  !.calls = ValueEffectCalls(value, t.value)]
        /\ UNCHANGED <<inflight, mounted, modifierHeld, graceTimer, latestRequest>>

\* the debounce timer expires and invokes the function of lines 75-81
DebounceFire ==
    /\ debounceTimer.pending
    /\ debounceTimer' = DebounceIdle
    /\ IF debounceTimer.args = <<>>
       THEN UNCHANGED <<inflight, burstSent, latestRequest>>
       ELSE /\ inflight < MaxInflight
            /\ inflight' = inflight + 1
            /\ burstSent' = burstSent + 1
            /\ latestRequest' = [inflight |-> TRUE, list |-> <<>>]
    /\ lastOp' = [NoOp EXCEPT !.op = "DebounceFire", !.word = debounceTimer.args,
                              !.route = IF debounceTimer.args = <<>> THEN "skipped" ELSE "sent"]
    /\ UNCHANGED <<value, typedWord, suggestion, showSuggestion, selectedSuggestion,
                   cursorPosition, metaKey, metaTimers, mounted, modifierHeld, burst,
                   graceTimer, callbackArg>>

\* One of the requests in flight is answered: the one sent last, or an earlier one
AnswerRequest(list) ==
    \/ /\ latestRequest.inflight
       /\ latestRequest' = [inflight |-> FALSE, list |-> list]
    \/ /\ inflight > (IF latestRequest.inflight THEN 1 ELSE 0)
       /\ UNCHANGED latestRequest

\* res.json() resolves, lines 82-96; a state update of an unmounted component is dropped
Response(r) ==
    LET t == applyResponse(State, Responses[r])
    IN  /\ inflight > 0
        /\ inflight' = inflight - 1
        /\ IF mounted THEN Commit(t) ELSE Commit(State)
        /\ AnswerRequest(IF mounted /\ Accepted(Responses[r])
                         THEN Suggestions(Responses[r].items[2].items[1]) ELSE <<>>)
        /\ lastOp' = [NoOp EXCEPT !.op = "Response", !.idx = r,
                                  !.route = IF mounted /\ Accepted(Responses[r])
                                            THEN "accepted" ELSE "discarded"]
        /\ UNCHANGED <<mounted, modifierHeld, burst, burstSent, graceTimer>>

\* fetch or res.json() rejects, lines 81-82: the async function ends there
FetchFail ==
    /\ inflight > 0
    /\ inflight' = inflight - 1
    /\ AnswerRequest(<<>>)
    /\ lastOp' = [NoOp EXCEPT !.op = "FetchFail"]
    /\ UNCHANGED <<value, typedWord, suggestion, showSuggestion, selectedSuggestion,
                   cursorPosition, metaKey, metaTimers, debounceTimer,
                   mounted, modifierHeld, burst, burstSent, graceTimer, callbackArg>>

\* the cleanup of lines 107-109 at unmount
Unmount ==
    /\ mounted
    /\ mounted' = FALSE
    /\ debounceTimer' = DebounceCancel(debounceTimer)
    /\ burst' = 0
    /\ burstSent' = 0
    /\ lastOp' = [NoOp EXCEPT !.op = "Unmount"]
    /\ UNCHANGED <<value, typedWord, suggestion, showSuggestion, selectedSuggestion,
                   cursorPosition, metaKey, metaTimers, inflight, modifierHeld,
                   graceTimer, callbackArg, latestRequest>>

\* The events of the environment
ModifierDown == KeyDown("Meta")
OtherKeyDown == KeyDown("a")
ModifierUp == KeyUp("Meta")
Typing == \E key \in Keys \ {"Meta"} : KeyUp(key)
NativeEdit ==
    \E content \in NativeContents :
       \E selectionStart \in 0..Len(content) :
          \E selectionEnd \in selectionStart..Len(content) :
             Change(content, selectionStart, selectionEnd)
ListClick == \E idx \in 0..(Len(suggestion) - 1) : Click(idx)
Lookup == \E r \in DOMAIN Responses : Response(r)

\* the timer expires while no request is in flight: lookups do not overlap
SerialFire == inflight = 0 /\ DebounceFire

\* the first four outcomes alone: two alternatives, none, an empty one, no array
CoreResponses == {1, 2, 3, 4}
CoreLookup == \E r \in CoreResponses : Response(r)

\* The whole widget
Next ==
    \/ ModifierDown
    \/ OtherKeyDown
    \/ ModifierUp
    \/ Typing
    \/ MetaTimerFire
    \/ NativeEdit
    \/ ListClick
    \/ DebounceFire
    \/ Lookup
    \/ FetchFail
    \/ Unmount

Spec == Init /\ [][Next]_vars

\* The widget under typing, native edits, clicks and the first four lookup
\* outcomes one at a time, the platform modifier never pressed
NextEditing ==
    \/ Typing
    \/ NativeEdit
    \/ ListClick
    \/ SerialFire
    \/ CoreLookup
    \/ FetchFail

SpecEditing == Init /\ [][NextEditing]_vars

\* The widget under the keyboard with the platform modifier, clicks and the first
\* four lookup outcomes one at a time, the text field never edited natively
NextModifier ==
    \/ ModifierDown
    \/ OtherKeyDown
    \/ ModifierUp
    \/ Typing
    \/ MetaTimerFire
    \/ ListClick
    \/ SerialFire
    \/ CoreLookup
    \/ FetchFail

SpecModifier == Init /\ [][NextModifier]_vars

\* The widget under typing, clicks and every lookup outcome, one lookup at a time,
\* the platform modifier never pressed and the text field never edited natively
NextLookup ==
    \/ Typing
    \/ ListClick
    \/ SerialFire
    \/ Lookup
    \/ FetchFail

SpecLookup == Init /\ [][NextLookup]_vars

\* The widget from mount to unmount under typing, clicks and the first four lookup
\* outcomes one at a time
NextLifecycle ==
    \/ Typing
    \/ ListClick
    \/ SerialFire
    \/ CoreLookup
    \/ FetchFail
    \/ Unmount

SpecLifecycle == Init /\ [][NextLifecycle]_vars

\* The widget under typing, clicks and the first four lookup outcomes, the
\* lookups overlapping and answered in any order
NextOverlap ==
    \/ Typing
    \/ ListClick
    \/ DebounceFire
    \/ CoreLookup
    \/ FetchFail

SpecOverlap == Init /\ [][NextOverlap]_vars

-----------------------------------------------------------------------------
(* Properties *)

\* The component state of lines 61-70 together with the timers
ComponentVars ==
    <<value, typedWord, suggestion, showSuggestion, selectedSuggestion,
      cursorPosition, metaKey, metaTimers, debounceTimer>>

\* value[0:n] and value[n:], the ends clamped to the length
Prefix(text, n) == SubSeq(text, 1, Min(n, Len(text)))
Suffix(text, n) == SubSeq(text, Min(n, Len(text)) + 1, Len(text))

\* The step is a key-up of key that is not suppressed by the modifier
KeyUpStep(key) ==
    /\ lastOp'.op = "KeyUp"
    /\ lastOp'.key = key
    /\ ~modifierHeld
    /\ ~metaKey

\* The step is a key-up of a control key while the popup is visible
ControlStep(key) == KeyUpStep(key) /\ showSuggestion = DISPLAY_BLOCK

\* C1: for a burst of N >= 1 alphanumeric key-ups, each arriving before the timer
\* armed by the previous one has fired, no request is sent while the timer is
\* pending, exactly one has been sent once it has fired, and the request carries
\* the final accumulated typedWord.
C1_DebounceCoalescing ==
    burst > 0 =>
        /\ debounceTimer.pending => burstSent = 0
        /\ ~debounceTimer.pending => burstSent = 1
        /\ lastOp.op = "DebounceFire" => lastOp.route = "sent" /\ lastOp.word = typedWord

\* The timer has fired after a burst of two key-ups, sending the whole word
C1_Witness ==
    /\ burst = 2
    /\ burstSent = 1
    /\ lastOp.op = "DebounceFire"
    /\ lastOp.word = <<"a", "a">>

\* C2: for every value, cursorPosition and chosen candidate c that exists at the
\* committed index (suggestion[idx] passes the test of line 212: it is defined and
\* not the empty string), selectSuggestion leaves value equal to
\* value[0:cursorPosition] + c + " " + value[cursorPosition:] and cursorPosition
\* equal to the old cursorPosition + length(c) + 1.
C2_CommitSplice ==
    [][(lastOp'.op = "Click" \/ ControlStep("Enter") \/ ControlStep(" ")) =>
         LET idx == IF lastOp'.op = "Click" THEN lastOp'.idx ELSE selectedSuggestion
         IN  (idx + 1 \in DOMAIN suggestion /\ suggestion[idx + 1] # <<>>) =>
                /\ value' = Prefix(value, cursorPosition) \o suggestion[idx + 1]
                                \o <<" ">> \o Suffix(value, cursorPosition)
                /\ cursorPosition' = cursorPosition + Len(suggestion[idx + 1]) + 1]_vars

\* Enter has committed the candidate "x" after the "a" of the field
C2_Witness ==
    /\ lastOp.op = "KeyUp"
    /\ lastOp.key = "Enter"
    /\ lastOp.route = "control"
    /\ value = <<"a", "x", " ">>
    /\ cursorPosition = 3

\* C3: in every reachable state cursorPosition lies within [0, length(value)].
C3_CursorWithinValue == cursorPosition \in 0..Len(value)

\* C4: in every reachable state 0 <= selectedIndex < max(1, length(suggestions)).
C4_SelectedIndexInRange ==
    /\ 0 <= selectedSuggestion
    /\ selectedSuggestion < Max(1, Len(suggestion))

\* C5: an ArrowDown or ArrowUp key-up changes selectedIndex by at most one and
\* never moves it outside [0, length(suggestions)-1]; ArrowDown at the last index
\* and ArrowUp at index 0 leave it unchanged, and neither key changes any other
\* state variable.
C5_SelectionClamping ==
    [][(ControlStep("ArrowDown") \/ ControlStep("ArrowUp")) =>
         /\ selectedSuggestion' - selectedSuggestion \in {-1, 0, 1}
         /\ selectedSuggestion' # selectedSuggestion
               => selectedSuggestion' \in 0..(Len(suggestion) - 1)
         /\ lastOp'.key = "ArrowDown" /\ selectedSuggestion = Len(suggestion) - 1
               => selectedSuggestion' = selectedSuggestion
         /\ lastOp'.key = "ArrowUp" /\ selectedSuggestion = 0
               => selectedSuggestion' = selectedSuggestion
         /\ UNCHANGED <<value, typedWord, suggestion, showSuggestion,
                        cursorPosition, metaKey>>]_vars

\* C6: while the popup is visible, a Backspace key-up on a typedWord of length
\* L > 0 leaves typedWord as its first L-1 characters with the popup still
\* visible; on an empty typedWord it hides the popup and leaves typedWord empty,
\* suggestions empty and selectedIndex 0.
C6_BackspaceSemantics ==
    [][ControlStep("Backspace") =>
         IF Len(typedWord) > 0
         THEN /\ typedWord' = SubSeq(typedWord, 1, Len(typedWord) - 1)
              /\ showSuggestion' = DISPLAY_BLOCK
         ELSE /\ showSuggestion' = DISPLAY_NONE
              /\ typedWord' = <<>>
              /\ suggestion' = <<>>
              /\ selectedSuggestion' = 0]_vars

\* Backspace has trimmed a word of two characters, the popup still showing
C6_Witness ==
    /\ lastOp.op = "KeyUp"
    /\ lastOp.key = "Backspace"
    /\ lastOp.route = "control"
    /\ typedWord = <<"a">>
    /\ showSuggestion = DISPLAY_BLOCK

\* data has the form ["SUCCESS", [[original, alternatives], ...]] with original a
\* word and alternatives a list of words
IsSuccessForm(data) ==
    /\ data.kind = "array" /\ Len(data.items) = 2
    /\ data.items[1] = Str(<<"SUCCESS">>)
    /\ data.items[2].kind = "array" /\ Len(data.items[2].items) >= 1
    /\ LET entry == data.items[2].items[1]
       IN  /\ entry.kind = "array" /\ Len(entry.items) = 2
           /\ entry.items[1].kind = "string"
           /\ entry.items[2].kind = "array"
           /\ \A i \in DOMAIN entry.items[2].items : entry.items[2].items[i].kind = "string"

OriginalOf(data) == data.items[2].items[1].items[1].text

AlternativesOf(data) ==
    LET alternatives == data.items[2].items[1].items[2].items
    IN  [i \in DOMAIN alternatives |-> alternatives[i].text]

\* C7: when a response ["SUCCESS", [[original, alternatives], ...]] is applied,
\* suggestions becomes exactly the alternatives in their received order followed
\* by original as the last element.
C7_AlternativesThenOriginal ==
    mounted /\ lastOp.op = "Response" /\ IsSuccessForm(Responses[lastOp.idx])
        => suggestion = AlternativesOf(Responses[lastOp.idx])
                            \o <<OriginalOf(Responses[lastOp.idx])>>

\* A response of two alternatives has been applied
C7_Witness ==
    /\ lastOp.op = "Response"
    /\ lastOp.route = "accepted"
    /\ suggestion = <<CandX, CandXX, WordA>>

\* data is no array, has fewer than two elements, does not start with the success
\* marker, has no non-empty list as its second element, has a first entry that is
\* no list of at least two elements, or has alternatives that cannot be spread
IsIncomplete(data) ==
    \/ data.kind # "array"
    \/ Len(data.items) < 2
    \/ data.items[1] # Str(<<"SUCCESS">>)
    \/ data.items[2].kind # "array"
    \/ Len(data.items[2].items) < 1
    \/ data.items[2].items[1].kind # "array"
    \/ Len(data.items[2].items[1].items) < 2
    \/ data.items[2].items[1].items[2].kind \notin {"array", "string"}

\* data deviates from the expected shape as the claim lists it: a non-array, an
\* empty array, a first element that is not the success marker, a second element
\* that is no non-empty list, a first entry that is no two-element
\* [original, alternatives] structure with alternatives a list
Deviates(data) ==
    \/ data.kind # "array"
    \/ Len(data.items) = 0
    \/ data.items[1] # Str(<<"SUCCESS">>)
    \/ Len(data.items) < 2
    \/ data.items[2].kind # "array"
    \/ Len(data.items[2].items) < 1
    \/ data.items[2].items[1].kind # "array"
    \/ Len(data.items[2].items[1].items) # 2
    \/ data.items[2].items[1].items[2].kind # "array"

\* C8 as claimed: any lookup outcome that deviates from the expected shape, or a
\* network failure, leaves suggestions and every other state variable unchanged.
C8_AnyDeviationIgnored ==
    [][(lastOp'.op = "FetchFail"
          \/ (lastOp'.op = "Response" /\ Deviates(Responses[lastOp'.idx])))
         => UNCHANGED ComponentVars]_vars

\* C8 as amended: a lookup outcome that is incomplete (no array, fewer than two
\* elements, another marker than the success marker, no non-empty list as second
\* element, a first entry that is no list of at least two elements) or whose
\* alternatives cannot be spread, or a network failure, leaves suggestions and
\* every other state variable unchanged.
C8_IncompleteIgnored ==
    [][(lastOp'.op = "FetchFail"
          \/ (lastOp'.op = "Response" /\ IsIncomplete(Responses[lastOp'.idx])))
         => UNCHANGED ComponentVars]_vars

\* An incomplete response has arrived while suggestions were showing
C8_Witness ==
    /\ lastOp.op = "Response"
    /\ IsIncomplete(Responses[lastOp.idx])
    /\ suggestion # <<>>
    /\ showSuggestion = DISPLAY_BLOCK

\* C9: from the key-down of the platform modifier until it is released, no key-up
\* changes typedWord, suggestions, selectedIndex, the popup's visibility, value or
\* cursorPosition.
C9_ModifierSuppression ==
    [][modifierHeld /\ lastOp'.op = "KeyUp" =>
         UNCHANGED <<typedWord, suggestion, selectedSuggestion, showSuggestion,
                     value, cursorPosition>>]_vars

\* The key-up of "a" has arrived during a composition with the modifier held
C9_Witness ==
    /\ modifierHeld
    /\ lastOp.op = "KeyUp"
    /\ lastOp.key = "a"
    /\ typedWord = <<"a">>
    /\ showSuggestion = DISPLAY_BLOCK

\* C10: while the popup is visible, a native change event changes neither value
\* nor cursorPosition nor any other state variable, and value changes only
\* through a commit (Enter, Space or a click).
C10_ChangeRejected ==
    [][showSuggestion = DISPLAY_BLOCK =>
         /\ lastOp'.op = "Change" => UNCHANGED ComponentVars
         /\ value' # value =>
               \/ lastOp'.op = "Click"
               \/ lastOp'.op = "KeyUp" /\ lastOp'.key \in {"Enter", " "}]_vars

\* A native change event has arrived during a composition
C10_Witness ==
    /\ lastOp.op = "Change"
    /\ showSuggestion = DISPLAY_BLOCK
    /\ typedWord # <<>>

\* The step is a commit: a click on a list entry, or an Enter or Space key-up that
\* reaches selectSuggestion; lastOp'.idx is the index it commits
CommitStep ==
    \/ lastOp'.op = "Click"
    \/ lastOp'.op = "KeyUp" /\ lastOp'.route = "control" /\ lastOp'.key \in {"Enter", " "}

\* C11: selectSuggestion(index), for every index (in range or not) and whether
\* invoked by Enter, Space or a click, ends with typedWord empty, suggestions
\* empty, selectedIndex 0, the popup hidden and the suppression flag released; when
\* index is out of range or holds no candidate (the empty string included), value
\* and cursorPosition are unchanged.
C11_SelectClears ==
    [][CommitStep =>
         /\ typedWord' = <<>>
         /\ suggestion' = <<>>
         /\ selectedSuggestion' = 0
         /\ showSuggestion' = DISPLAY_NONE
         /\ metaKey' = FALSE
         /\ (lastOp'.idx + 1 \notin DOMAIN suggestion \/ suggestion[lastOp'.idx + 1] = <<>>)
               => UNCHANGED <<value, cursorPosition>>]_vars

\* Enter has been received with selectedIndex 2 on a list shorter than three: the
\* composition is cleared and nothing has been committed
C11_Witness ==
    /\ lastOp.op = "KeyUp"
    /\ lastOp.key = "Enter"
    /\ lastOp.route = "control"
    /\ lastOp.idx = 2
    /\ value = <<>>
    /\ showSuggestion = DISPLAY_NONE

\* C12: once the widget has unmounted, or once the composition has been cleared
\* (the popup is hidden again), no debounce timer of the earlier word is pending,
\* and no request sent for the earlier word changes suggestions when it is
\* answered.
C12_NoStaleResults ==
    [][(~mounted \/ showSuggestion = DISPLAY_NONE) =>
         /\ ~debounceTimer.pending
         /\ lastOp'.op \in {"Response", "FetchFail", "DebounceFire"}
               => suggestion' = suggestion]_vars

\* C13: in every state where no request is in flight and suggestions is non-empty,
\* suggestions is the candidate list of the response to the most recently sent
\* request (when that response was a usable one), for every order in which the
\* responses of overlapping requests arrive.
C13_LatestRequestDecides ==
    inflight = 0 /\ suggestion # <<>> /\ latestRequest.list # <<>>
        => suggestion = latestRequest.list

\* C14: in every reachable state suggestions holds at most MAX_SUGGESTIONS
\* candidates, for every response the service may return to a request asking for
\* MAX_SUGGESTIONS candidates (up to MAX_SUGGESTIONS alternatives plus the original).
C14_AtMostMaxSuggestions == Len(suggestion) <= MAX_SUGGESTIONS

\* C15: every state transition that changes value is followed by exactly one
\* onChangeCallback invocation whose argument is the new value, and once the
\* effects have run the argument of the most recent invocation equals the
\* current value.
C15_CallbackOnEveryChange ==
    [][/\ value' # value => lastOp'.calls = 1
       /\ callbackArg' = value']_vars

\* A native edit has put a space into the field and the callback has received it
C15_Witness ==
    /\ lastOp.op = "Change"
    /\ lastOp.calls = 1
    /\ value = <<" ">>
    /\ callbackArg = <<" ">>

\* The component state an Enter key-up would leave, received in the current state
\* with selectedIndex = i
AfterEnterAt(i) == onKeyUp([State EXCEPT !.selectedSuggestion = i], "Enter", modifierHeld)

\* C16 as claimed: clicking the list entry at index i has the same effect on every
\* state variable as an Enter key-up received in the same state with
\* selectedIndex = i.
C16_ClickIsEnter ==
    [][lastOp'.op = "Click" => State' = AfterEnterAt(lastOp'.idx)]_vars

\* C16 as amended: in a state where key-ups are not suppressed (the modifier is not
\* held and the suppression flag is clear), clicking the list entry at index i has
\* the same effect on every state variable as an Enter key-up received in the same
\* state with selectedIndex = i.
C16_ClickIsEnterUnsuppressed ==
    [][lastOp'.op = "Click" /\ ~modifierHeld /\ ~metaKey
         => State' = AfterEnterAt(lastOp'.idx)]_vars

\* A click on the second entry has committed it, no modifier key involved
C16_Witness ==
    /\ lastOp.op = "Click"
    /\ lastOp.idx = 1
    /\ value = CandXX \o <<" ">>
    /\ ~modifierHeld
    /\ metaTimers = 0

\* The modifier is held, or it has been released and the grace timer started by
\* that release has not fired
InGrace == modifierHeld \/ graceTimer > 0

\* C17: once the modifier key-down has set the suppression flag, the flag stays set
\* until the grace timer started by the release of that press fires, so no key-up
\* of another key received before that alters typedWord or any other composition
\* state, for every interleaving of modifier presses, releases, timer firings and
\* clicks.
C17_GraceWindow ==
    [][/\ InGrace' => metaKey'
       /\ InGrace /\ lastOp'.op = "KeyUp" /\ lastOp'.key # "Meta"
             => UNCHANGED <<typedWord, suggestion, selectedSuggestion, showSuggestion,
                            value, cursorPosition>>]_vars

C19_HiddenMeansIdle ==
    showSuggestion = DISPLAY_NONE => typedWord = <<>> /\ selectedSuggestion = 0

\* Space has committed the second entry of the list and the popup is hidden again
C19_Witness ==
    /\ showSuggestion = DISPLAY_NONE
    /\ lastOp.op = "KeyUp"
    /\ lastOp.key = " "
    /\ lastOp.route = "control"
    /\ lastOp.idx = 1
    /\ value # <<>>

\* C20: the debounce timer (lodash keeps one per debounced function), when
\* pending, carries the current typedWord; no timer is pending while typedWord is
\* empty; and no request is sent with an empty word or with a word different from
\* typedWord at the moment of sending.
C20_TimerCarriesTypedWord ==
    /\ debounceTimer.pending => debounceTimer.args = typedWord /\ typedWord # <<>>
    /\ lastOp.op = "DebounceFire" =>
          lastOp.route = "sent" /\ lastOp.word # <<>> /\ lastOp.word = typedWord

\* Backspace has shortened the word to "a" and the timer is pending with it
C20_Witness ==
    /\ lastOp.op = "KeyUp"
    /\ lastOp.key = "Backspace"
    /\ typedWord = <<"a">>
    /\ debounceTimer.pending
    /\ debounceTimer.args = <<"a">>

=============================================================================
